---- MODULE Spec2Model ----
(***************************************************************************)
(* Model of the ClusterRouter diagnostic (pkg/diagnostics/cluster/router.go)*)
(* of openshift origin.  One ClusterRouter value d is configured with two  *)
(* client handles; a caller asks CanRun and, when it says yes, runs Check, *)
(* which looks up the "router" DeploymentConfig, lists its pods, and scans *)
(* the log of every running pod for a recent "Failed to list *api.Route"   *)
(* line.  The cluster (API server, pod logs, clock) is the environment:    *)
(* every answer it gives is drawn from a small set at the call.            *)
(* The NodeConfigCheck diagnostic (package host) is modelled beside it: it *)
(* reads the node config file it is given, validates it and reports.       *)
(***************************************************************************)
EXTENDS Integers, Sequences, FiniteSets

\* ---------------------------------------------------------------- bounds
MaxPods == 2      \* pods the List call returns at most
MaxLines == 2     \* lines one log stream delivers at most
MaxTicks == 1     \* seconds the clock advances at most during a behaviour
\* The same two bounds where two invocations run against one cluster.
TwoMaxPods == 1
TwoMaxLines == 1
MaxValidationErrors == 3   \* errors ValidateNodeConfig returns at most

\* ------------------------------------------------------------- constants
ClusterRouterName == "ClusterRouter"
routerName == "router"
NamespaceDefault == "default"
\* time.Since(stamp).Seconds() < 30.0
RecencyThreshold == 30

\* Invocations of the one ClusterRouter value d.
Invocations == {1, 2}

\* ------------------------------------------------------------ error values
NoErr == [type |-> "nil", reason |-> ""]
StatusErrorType == "*errors.StatusError"
ErrNotFound == [type |-> StatusErrorType, reason |-> "NotFound"]
ErrForbidden == [type |-> StatusErrorType, reason |-> "Forbidden"]
ErrNetwork == [type |-> "*url.Error", reason |-> "connection refused"]
ErrUnexpectedEOF == [type |-> "*errors.errorString", reason |-> "unexpected EOF"]
ErrNoClients == [type |-> "*errors.errorString", reason |-> "must have kube and os client"]
\* types.DiagnosticError{"clGetRouterFailed", &msg, cause}
DiagnosticError == [type |-> "types.DiagnosticError", reason |-> "clGetRouterFailed"]

\* What DeploymentConfigs(default).Get("router") can answer.
LookupErrors == {NoErr, ErrNotFound, ErrForbidden, ErrNetwork}
\* What Pods(default).List(...) and the log Stream() can fail with.
ClientErrors == {ErrForbidden, ErrNetwork}
\* What adminCan answers: allowed, denied, or an error.
AuthAnswers == {[can |-> TRUE, err |-> NoErr], [can |-> FALSE, err |-> NoErr],
                [can |-> FALSE, err |-> ErrNetwork]}

\* ------------------------------------------------------ timestamps and lines
\* A leading token of a log line.  secs is the instant it names (seconds,
\* relative to the clock's first reading), fracDigits the number of digits
\* of its fractional second, zone its zone suffix.
NoStamp == [secs |-> 0, fracDigits |-> 0, zone |-> ""]
Nano(s) == [secs |-> s, fracDigits |-> 9, zone |-> "Z"]
Micro(s) == [secs |-> s, fracDigits |-> 6, zone |-> "Z"]

\* The layout "2006-01-02T15:04:05.000000000Z": exactly nine fractional
\* digits and a literal Z.
referenceTimestampLayout == [fracDigits |-> 9, zone |-> "Z"]

\* time.Parse(referenceTimestampLayout, tok)
timeParse(tok) ==
    IF tok.fracDigits = referenceTimestampLayout.fracDigits
       /\ tok.zone = referenceTimestampLayout.zone
    THEN [ok |-> TRUE, secs |-> tok.secs]
    ELSE [ok |-> FALSE, secs |-> 0]

\* A log line: its leading whitespace-free token (NoStamp when the line
\* starts with whitespace or is empty), whether "Failed to list *api.Route: "
\* follows, and the text after that phrase.
LogLines ==
    { [stamp |-> Nano(-1),    phrase |-> FALSE, reason |-> ""],
      [stamp |-> Micro(-10),  phrase |-> TRUE,  reason |-> "dial tcp: timeout"],
      [stamp |-> Nano(-120),  phrase |-> TRUE,  reason |-> "dial tcp: timeout"],
      [stamp |-> Nano(-29),   phrase |-> TRUE,  reason |-> "dial tcp: timeout"],
      [stamp |-> Nano(-10),   phrase |-> TRUE,  reason |-> "connection refused"],
      [stamp |-> Nano(5),     phrase |-> TRUE,  reason |-> "x509: certificate expired"],
      [stamp |-> NoStamp,     phrase |-> TRUE,  reason |-> "connection refused"] }

\* regexp `^(\S+).*Failed to list \*api.Route: (.*)` .FindStringSubmatch:
\* <<>> without a match, else <<whole line, token, reason>>.
FindStringSubmatch(line) ==
    IF line.stamp # NoStamp /\ line.phrase
    THEN <<line, line.stamp, line.reason>>
    ELSE <<>>

\* ------------------------------------------------------------ result sink
NoSink == [name |-> "", findings |-> <<>>]
NewDiagnosticResult(name) == [name |-> name, findings |-> <<>>]

Finding(level, id, err, podName, reason, timestamp) ==
    [level |-> level, id |-> id, err |-> err, podName |-> podName,
     reason |-> reason, timestamp |-> timestamp]

Append1(sink, f) == [sink EXCEPT !.findings = Append(@, f)]

Debugf(sink, id, podName) ==
    Append1(sink, Finding("debug", id, NoErr, podName, "", NoStamp))
Warnf(sink, id, err) ==
    Append1(sink, Finding("warning", id, err, "", "", NoStamp))
Errorf(sink, id, err) ==
    Append1(sink, Finding("error", id, err, "", "", NoStamp))
Warnt(sink, id, err, podName) ==
    Append1(sink, Finding("warning", id, err, podName, "", NoStamp))
Errort(sink, id, err, podName, reason, timestamp) ==
    Append1(sink, Finding("error", id, err, podName, reason, timestamp))

\* ------------------------------------------------------------------- pods
PodNames == <<"router-1-a", "router-1-b", "router-1-c", "router-1-d">>
PodPhases == {"Running", "Pending"}
\* What a pod of the list looks like: its phase and how many containers
\* its spec has.
PodShapes == [phase : PodPhases, containers : {0, 1}]
Pod(k, shape) ==
    [name |-> PodNames[k], phase |-> shape.phase, containers |-> shape.containers]
PodLists(max) ==
    UNION { { [k \in 1..n |-> Pod(k, shapes[k])] : shapes \in [1..n -> PodShapes] }
            : n \in 0..max }
AllPodNames == {PodNames[k] : k \in DOMAIN PodNames}

\* ---------------------------------------------------------------- CanRun
\* A request to the cluster as calls records it, with its answer: the
\* error, the allowed bit of an authorization answer, the Items of a list.
Call(op, verb, resource, name, err, can, items) ==
    [op |-> op, namespace |-> NamespaceDefault, verb |-> verb,
     resource |-> resource, name |-> name, err |-> err, can |-> can,
     items |-> items]

\* adminCan(d.OsClient, AuthorizationAttributes{default, "get", "dc", "router"})
adminCan(answer) ==
    Call("adminCan", "get", "dc", routerName, answer.err, answer.can, <<>>)

\* CanRun asks adminCan only with both handles set.
CanRunAsks(dd) == dd.KubeClient /\ dd.OsClient

\* CanRunResult with the denied branch returning adminCan's (nil) error.
CanRunResultDeniedNilError(dd, answer) ==
    IF ~dd.KubeClient \/ ~dd.OsClient
    THEN [ok |-> FALSE, err |-> ErrNoClients, cause |-> NoErr]
    ELSE IF answer.err # NoErr
    THEN [ok |-> FALSE, err |-> DiagnosticError, cause |-> answer.err]
    ELSE IF ~answer.can
    THEN [ok |-> FALSE, err |-> answer.err, cause |-> NoErr]
    ELSE [ok |-> TRUE, err |-> NoErr, cause |-> NoErr]

\* The (bool, error) CanRun returns, answer being what adminCan said;
\* cause is the third field of the DiagnosticError.
CanRunResult(dd, answer) ==
    IF ~dd.KubeClient \/ ~dd.OsClient
    THEN [ok |-> FALSE, err |-> ErrNoClients, cause |-> NoErr]
    ELSE IF answer.err # NoErr
    THEN [ok |-> FALSE, err |-> DiagnosticError, cause |-> answer.err]
    ELSE IF ~answer.can
    THEN [ok |-> FALSE, err |-> DiagnosticError, cause |-> answer.err]
    ELSE [ok |-> TRUE, err |-> NoErr, cause |-> NoErr]

\* ----------------------------------------------------------- getRouterDC
\* getRouterDC without the branch for a StatusError.
getRouterDCNoStatusBranch(err, sink) ==
    IF err # NoErr
    THEN [r |-> Errorf(sink, "DClu2002", err), dc |-> FALSE]
    ELSE [r |-> Debugf(sink, "DClu2003", ""), dc |-> TRUE]

\* getRouterDC going on to the pods after the not-found warning.
getRouterDCWarnsAndGoesOn(err, sink) ==
    IF err # NoErr /\ err.type = StatusErrorType
    THEN [r |-> Warnf(sink, "DClu2001", err), dc |-> TRUE]
    ELSE IF err # NoErr
    THEN [r |-> Errorf(sink, "DClu2002", err), dc |-> FALSE]
    ELSE [r |-> Debugf(sink, "DClu2003", ""), dc |-> TRUE]

\* err is what Get("router") returned; dc tells whether a DC is returned.
getRouterDC(err, sink) ==
    IF err # NoErr /\ err.type = StatusErrorType
    THEN [r |-> Warnf(sink, "DClu2001", err), dc |-> FALSE]
    ELSE IF err # NoErr
    THEN [r |-> Errorf(sink, "DClu2002", err), dc |-> FALSE]
    ELSE [r |-> Debugf(sink, "DClu2003", ""), dc |-> TRUE]

\* --------------------------------------------------------- getRouterPods
\* The phase test taking every pod for a running one.
IsRunningAnyPhase(pod) == TRUE

IsRunning(pod) == pod.phase = "Running"

\* getRouterPods without the DClu2007 report for an empty running subset.
getRouterPodsSilentWhenEmpty(err, pods, sink) ==
    IF err # NoErr
    THEN [r |-> Errorf(sink, "DClu2004", err), pods |-> <<>>, ok |-> FALSE]
    ELSE LET debugs == [k \in 1..Len(pods) |->
                          Finding("debug",
                                  IF ~IsRunning(pods[k]) THEN "DClu2005" ELSE "DClu2006",
                                  NoErr, pods[k].name, "", NoStamp)]
             running == SelectSeq(pods, IsRunning)
             sink1 == [sink EXCEPT !.findings = @ \o debugs]
         IN  [r |-> sink1, pods |-> running, ok |-> Len(running) # 0]

\* err and pods are what List returned; ok tells whether a list is
\* returned, pods is then its Items (the running pods, in list order).
getRouterPods(err, pods, sink) ==
    IF err # NoErr
    THEN [r |-> Errorf(sink, "DClu2004", err), pods |-> <<>>, ok |-> FALSE]
    ELSE LET debugs == [k \in 1..Len(pods) |->
                          Finding("debug",
                                  IF ~IsRunning(pods[k]) THEN "DClu2005" ELSE "DClu2006",
                                  NoErr, pods[k].name, "", NoStamp)]
             running == SelectSeq(pods, IsRunning)
             sink1 == [sink EXCEPT !.findings = @ \o debugs]
         IN  IF Len(running) = 0
             THEN [r |-> Errorf(sink1, "DClu2007", NoErr), pods |-> <<>>, ok |-> FALSE]
             ELSE [r |-> sink1, pods |-> running, ok |-> TRUE]

\* ------------------------------------------------------- checkRouterLogs
\* getPodLogScanner indexes pod.Spec.Containers[0] to build the request.
getPodLogScannerPanics(pod) == pod.containers = 0

\* checkRouterLogs when getPodLogScanner returned err.
checkRouterLogsOpenFailed(sink, pod, err) == Warnt(sink, "DClu2008", err, pod.name)

\* IsRecent without the comparison with the threshold.
IsRecentAnyAge(tok, t) == timeParse(tok).ok

\* The recency test with <= in place of <.
IsRecentInclusive(tok, t) ==
    timeParse(tok).ok /\ t - timeParse(tok).secs <= RecencyThreshold

\* Is a match with this token, read when the clock says t, a recent one?
IsRecent(tok, t) ==
    LET stamp == timeParse(tok)
    IN  stamp.ok /\ (t - stamp.secs) < RecencyThreshold

\* checkRouterLogsLine without the break.
checkRouterLogsLineNoBreak(sink, pod, line, t) ==
    LET matches == FindStringSubmatch(line)
    IN  IF Len(matches) > 0 /\ IsRecent(matches[2], t)
        THEN [r |-> Errort(sink, "DClu2009", NoErr, pod.name, matches[3], matches[2]),
              brk |-> FALSE]
        ELSE [r |-> sink, brk |-> FALSE]

\* checkRouterLogsLine with the break after the inner if, not inside it.
checkRouterLogsLineBreakOnMatch(sink, pod, line, t) ==
    LET matches == FindStringSubmatch(line)
    IN  IF Len(matches) > 0 /\ IsRecent(matches[2], t)
        THEN [r |-> Errort(sink, "DClu2009", NoErr, pod.name, matches[3], matches[2]),
              brk |-> TRUE]
        ELSE [r |-> sink, brk |-> Len(matches) > 0]

\* checkRouterLogsLine reporting the time of the read, not the log's stamp.
checkRouterLogsLineStampNow(sink, pod, line, t) ==
    LET matches == FindStringSubmatch(line)
    IN  IF Len(matches) > 0 /\ IsRecent(matches[2], t)
        THEN [r |-> Errort(sink, "DClu2009", NoErr, pod.name, matches[3], Nano(t)),
              brk |-> TRUE]
        ELSE [r |-> sink, brk |-> FALSE]

\* One turn of the scan loop on a line read when the clock says t:
\* brk tells whether the loop is left.
checkRouterLogsLine(sink, pod, line, t) ==
    LET matches == FindStringSubmatch(line)
    IN  IF Len(matches) > 0 /\ IsRecent(matches[2], t)
        THEN [r |-> Errort(sink, "DClu2009", NoErr, pod.name, matches[3], matches[2]),
              brk |-> TRUE]
        ELSE [r |-> sink, brk |-> FALSE]

\* A stream just opened on the log of pod podName: how often it was closed,
\* and (kept only where two invocations are compared) the lines read from
\* it with the clock reading of each read.
NewStream(podName) == [pod |-> podName, closes |-> 0, lines |-> <<>>, readAt |-> <<>>]
StreamRead(strs, line, t) ==
    [strs EXCEPT ![Len(strs)].lines = Append(@, line),
                 ![Len(strs)].readAt = Append(@, t)]

\* checkRouterLogs without the deferred Close.
scannerCloseMissing(strs) == strs

\* The deferred scanner.Close(): the stream opened last is closed once more.
scannerClose(strs) == [strs EXCEPT ![Len(strs)].closes = @ + 1]

\* ------------------------------------------------------------------ state
VARIABLES
    d,         \* the ClusterRouter value: which client handles are set
    now,       \* the clock, in seconds since its first reading
    pc,        \* where each invocation stands
    canRun,    \* what CanRun returned to each invocation
    r,         \* the result sink of each invocation
    podList,   \* the running pods getRouterPods returned
    podIdx,    \* the pod of podList whose log is looked at
    scanner,   \* the log stream being scanned, with the lines read so far
    streams,   \* every log stream the invocation opened, with its closes
    calls,     \* the requests the invocation sent to the cluster, in order
    cluster,   \* what the cluster holds: its size and, where its state is
               \* unchanged between calls, the answers it has given so far
    node       \* the NodeConfigCheck value and its one run

routerVars == <<d, now, pc, canRun, r, podList, podIdx, scanner, streams, calls, cluster>>
vars == <<routerVars, node>>

NoResult == [ok |-> FALSE, err |-> NoErr, cause |-> NoErr]
NoScanner == [pod |-> "", lines |-> <<>>, readAt |-> <<>>, ended |-> FALSE,
              endErr |-> NoErr, brk |-> FALSE]

\* A log nothing is known of yet: whether it opens, its lines, its end.
NoLog == [open |-> <<>>, lines |-> <<>>, end |-> <<>>]
\* A cluster of at most maxPods pods whose logs hold at most maxLines lines
\* drawn from lines.  With fixed its state does not change: a request
\* asked again gets the answer it got before (dc, list, logs).
NewCluster(fixed, maxPods, maxLines, lines) ==
    [fixed |-> fixed, maxPods |-> maxPods, maxLines |-> maxLines, lines |-> lines,
     dc |-> <<>>, list |-> <<>>, logs |-> [n \in AllPodNames |-> NoLog]]

\* The answers the cluster can give to Get("router"), and the cluster
\* after the answer err.
GetAnswers ==
    IF cluster.fixed /\ cluster.dc # <<>> THEN {cluster.dc[1]} ELSE LookupErrors
AfterGet(err) ==
    IF cluster.fixed THEN [cluster EXCEPT !.dc = <<err>>] ELSE cluster

\* The same for List.
ListAnswers ==
    IF cluster.fixed /\ cluster.list # <<>> THEN {cluster.list[1]}
    ELSE [err : {NoErr}, items : PodLists(cluster.maxPods)]
         \cup [err : ClientErrors, items : {<<>>}]
AfterList(ans) ==
    IF cluster.fixed THEN [cluster EXCEPT !.list = <<ans>>] ELSE cluster

\* The same for the Stream of the log of pod podName.
StreamAnswers(podName) ==
    IF cluster.fixed /\ cluster.logs[podName].open # <<>>
    THEN {cluster.logs[podName].open[1]}
    ELSE {NoErr} \cup ClientErrors
AfterStream(podName, err) ==
    IF cluster.fixed THEN [cluster EXCEPT !.logs[podName].open = <<err>>] ELSE cluster

\* ------------------------------------------------------- NodeConfigCheck
NodeConfigCheckName == "NodeConfigCheck"
\* func (d NodeConfigCheck) Name() string
NodeConfigCheck_Name == NodeConfigCheckName
\* func (d *ClusterRouter) Name() string
ClusterRouter_Name == "ClusterRouterName"

\* The values of d.NodeConfigFile.
NodeConfigFiles == {"", "/etc/origin/node/node-config.yaml", "node-config.yaml"}
ErrNoNodeConfigFile ==
    [type |-> "*errors.errorString", reason |-> "must have node config file"]
\* What ReadAndResolveNodeConfig can answer: an error, or the parsed
\* structure of the file.
ErrNoSuchFile == [type |-> "*os.PathError", reason |-> "no such file or directory"]
ErrNotYaml == [type |-> "*errors.errorString", reason |-> "could not be decoded"]
NoConfig == "nil"
NodeConfigs == {"NodeConfig-a", "NodeConfig-b"}
ReadAnswers ==
    [err : {ErrNoSuchFile, ErrNotYaml}, config : {NoConfig}]
        \cup [err : {NoErr}, config : NodeConfigs]
\* What ValidateNodeConfig can answer: the validation errors, in its order.
ValidationErrors ==
    { [type |-> "*field.Error", reason |-> "Required value"],
      [type |-> "*field.Error", reason |-> "Invalid value"],
      [type |-> "*field.Error", reason |-> "Not found"] }
ValidateAnswers ==
    UNION { [1..n -> ValidationErrors] : n \in 0..MaxValidationErrors }

\* An entry of the NodeConfigCheck sink.
NodeFinding(level, id, err, file) ==
    [level |-> level, id |-> id, err |-> err, file |-> file]
\* r.Infof
Infof(sink, id, file) == Append1(sink, NodeFinding("info", id, NoErr, file))

\* func (d NodeConfigCheck) CanRun() (bool, error)
NodeCanRunResult(file) ==
    IF file = ""
    THEN [ok |-> FALSE, err |-> ErrNoNodeConfigFile]
    ELSE [ok |-> TRUE, err |-> NoErr]

\* Check up to the return of ReadAndResolveNodeConfig with answer ans;
\* read tells whether Check goes on to the validator.
NodeCheckRead(file, ans) ==
    LET r0 == NewDiagnosticResult(NodeConfigCheckName)
        r1 == Append1(r0, NodeFinding("debug", "DH1001", NoErr, file))
    IN  IF ans.err # NoErr
        THEN [r |-> Append1(r1, NodeFinding("error", "DH1002", ans.err, file)),
              read |-> FALSE]
        ELSE [r |-> Infof(r1, "DH1003", file), read |-> TRUE]

\* The range loop reporting the first validation error only.
NodeCheckValidateFirstOnly(sink, file, errs) ==
    IF errs = <<>> THEN sink
    ELSE Append1(sink, NodeFinding("error", "DH1004", errs[1], file))

\* The range loop of Check over the errors ValidateNodeConfig returned.
NodeCheckValidate(sink, file, errs) ==
    [sink EXCEPT !.findings =
        @ \o [k \in 1..Len(errs) |-> NodeFinding("error", "DH1004", errs[k], file)]]

\* A NodeConfigCheck value with this NodeConfigFile, before any call.
NewNode(file) ==
    [file |-> file, pc |-> "start", canRun |-> [ok |-> FALSE, err |-> NoErr],
     r |-> NoSink, calls |-> <<>>]
\* No NodeConfigCheck is run.
NoNode == [NewNode("") EXCEPT !.pc = "off"]

InitInvocations(started, handles, cl) ==
    /\ d \in handles
    /\ cluster = cl
    /\ now = 0
    /\ pc = [i \in Invocations |-> IF i \in started THEN "start" ELSE "off"]
    /\ canRun = [i \in Invocations |-> NoResult]
    /\ r = [i \in Invocations |-> NoSink]
    /\ podList = [i \in Invocations |-> <<>>]
    /\ podIdx = [i \in Invocations |-> 0]
    /\ scanner = [i \in Invocations |-> NoScanner]
    /\ streams = [i \in Invocations |-> <<>>]
    /\ calls = [i \in Invocations |-> <<>>]

Init ==
    /\ InitInvocations({1}, [KubeClient : BOOLEAN, OsClient : BOOLEAN],
                       NewCluster(FALSE, MaxPods, MaxLines, LogLines))
    /\ node = NoNode

\* The clock advances.
Tick ==
    /\ now < MaxTicks
    /\ now' = now + 1
    /\ UNCHANGED <<node, d, pc, canRun, r, podList, podIdx, scanner, streams, calls, cluster>>

\* d.CanRun()
CanRun(i) ==
    /\ pc[i] = "start"
    /\ \E answer \in AuthAnswers :
         LET res == CanRunResult(d, answer)
         IN  /\ canRun' = [canRun EXCEPT ![i] = res]
             /\ pc' = [pc EXCEPT ![i] = IF res.ok THEN "Check" ELSE "refused"]
             /\ calls' = [calls EXCEPT ![i] =
                   IF CanRunAsks(d) THEN Append(@, adminCan(answer)) ELSE @]
    /\ UNCHANGED <<node, d, now, r, podList, podIdx, scanner, streams, cluster>>

\* d.OsClient.DeploymentConfigs(default).Get("router")
GetDC(err) == Call("Get", "get", "dc", routerName, err, err = NoErr, <<>>)
\* d.KubeClient.Pods(default).List(selector of the DC, everything)
ListPods(err, pods) == Call("List", "list", "pods", "", err, err = NoErr, pods)
\* d.KubeClient.RESTClient.Get()...Resource("pods").SubResource("log").Stream()
StreamLog(podName, err) == Call("Stream", "get", "pods/log", podName, err, err = NoErr, <<>>)

\* Check with its sink kept in a field of d, shared by all invocations.
SinkShared(i) == 1

\* r := types.NewDiagnosticResult(...) is a local of Check: every
\* invocation writes the sink it made itself.
SinkOwner(i) == i

\* d.Check() up to the return of getRouterDC.
Check(i) ==
    /\ pc[i] = "Check"
    /\ \E err \in GetAnswers :
         LET res == getRouterDC(err, NewDiagnosticResult(ClusterRouterName))
         IN  /\ r' = [r EXCEPT ![SinkOwner(i)] = res.r]
             /\ pc' = [pc EXCEPT ![i] = IF res.dc THEN "getRouterPods" ELSE "done"]
             /\ calls' = [calls EXCEPT ![i] = Append(@, GetDC(err))]
             /\ cluster' = AfterGet(err)
    /\ UNCHANGED <<node, d, now, canRun, podList, podIdx, scanner, streams>>

\* getRouterPods, and the entry of the loop over its pods.
CheckPods(i) ==
    /\ pc[i] = "getRouterPods"
    /\ \E ans \in ListAnswers :
         LET res == getRouterPods(ans.err, ans.items, r[SinkOwner(i)])
         IN  /\ r' = [r EXCEPT ![SinkOwner(i)] = res.r]
             /\ podList' = [podList EXCEPT ![i] = res.pods]
             /\ podIdx' = [podIdx EXCEPT ![i] = IF res.ok THEN 1 ELSE 0]
             /\ pc' = [pc EXCEPT ![i] = IF res.ok THEN "checkRouterLogs" ELSE "done"]
             /\ calls' = [calls EXCEPT ![i] = Append(@, ListPods(ans.err, ans.items))]
             /\ cluster' = AfterList(ans)
    /\ UNCHANGED <<node, d, now, canRun, scanner, streams>>

\* Where the invocation stands once checkRouterLogs has returned for the
\* pod at podIdx: at the next pod, or at the return of Check.
\* The loop of Check left after the first pod.
AfterPodStops(i) == "done"

\* Where Check goes when checkRouterLogs returns: the next pod of the
\* range loop, or the return of r after the last one.
AfterPod(i) == IF podIdx[i] < Len(podList[i]) THEN "checkRouterLogs" ELSE "done"
\* The range loop of Check staying on the pod it has just done.
NextPodStays(i) == podIdx[i]

NextPod(i) == IF podIdx[i] < Len(podList[i]) THEN podIdx[i] + 1 ELSE podIdx[i]

\* checkRouterLogs up to the return of getPodLogScanner.
CheckLogsOpen(i) ==
    /\ pc[i] = "checkRouterLogs"
    /\ LET pod == podList[i][podIdx[i]]
       IN  IF getPodLogScannerPanics(pod)
           THEN /\ pc' = [pc EXCEPT ![i] = "panic"]
                /\ UNCHANGED <<r, podIdx, scanner, streams, calls, cluster>>
           ELSE \E err \in StreamAnswers(pod.name) :
                  /\ calls' = [calls EXCEPT ![i] = Append(@, StreamLog(pod.name, err))]
                  /\ cluster' = AfterStream(pod.name, err)
                  /\ IF err # NoErr
                     THEN /\ r' = [r EXCEPT ![SinkOwner(i)] =
                                      checkRouterLogsOpenFailed(@, pod, err)]
                          /\ pc' = [pc EXCEPT ![i] = AfterPod(i)]
                          /\ podIdx' = [podIdx EXCEPT ![i] = NextPod(i)]
                          /\ UNCHANGED <<scanner, streams>>
                     ELSE /\ scanner' = [scanner EXCEPT ![i] =
                                           [NoScanner EXCEPT !.pod = pod.name]]
                          /\ streams' = [streams EXCEPT ![i] = Append(@, NewStream(pod.name))]
                          /\ pc' = [pc EXCEPT ![i] = "scan"]
                          /\ UNCHANGED <<r, podIdx>>
    /\ UNCHANGED <<node, d, now, canRun, podList>>

\* What scanner.Scan() can give: a line, or the end of the stream with
\* the error scanner.Err() would tell (NoErr at the end of the log).
NoLine == CHOOSE l \in LogLines : TRUE
ScanOutcomes(sc) ==
    LET log == cluster.logs[sc.pod]
        read == Len(sc.lines)
    IN  IF cluster.fixed /\ read < Len(log.lines)
        THEN {[more |-> TRUE, line |-> log.lines[read + 1], err |-> NoErr]}
        ELSE IF cluster.fixed /\ log.end # <<>>
        THEN {[more |-> FALSE, line |-> NoLine, err |-> log.end[1]]}
        ELSE [more : {FALSE}, line : {NoLine}, err : {NoErr, ErrUnexpectedEOF}]
             \cup IF read < cluster.maxLines
                  THEN [more : {TRUE}, line : cluster.lines, err : {NoErr}]
                  ELSE {}
\* The cluster after the stream of scanner sc has given out.
AfterScan(sc, out) ==
    IF ~cluster.fixed THEN cluster
    ELSE IF out.more
    THEN [cluster EXCEPT !.logs[sc.pod].lines =
             IF Len(sc.lines) < Len(@) THEN @ ELSE Append(@, out.line)]
    ELSE [cluster EXCEPT !.logs[sc.pod].end = <<out.err>>]

\* One scanner.Scan() of the loop of checkRouterLogs with what follows it:
\* the loop body on a line, and the deferred Close when the loop is left.
CheckLogsScan(i) ==
    /\ pc[i] = "scan"
    /\ \E out \in ScanOutcomes(scanner[i]) :
         LET pod == podList[i][podIdx[i]]
             res == IF out.more
                    THEN checkRouterLogsLine(r[SinkOwner(i)], pod, out.line, now)
                    ELSE [r |-> r[SinkOwner(i)], brk |-> FALSE]
             left == res.brk \/ ~out.more
         IN  /\ r' = [r EXCEPT ![SinkOwner(i)] = res.r]
             /\ scanner' = [scanner EXCEPT ![i] =
                   [@ EXCEPT !.lines = IF out.more THEN Append(@, out.line) ELSE @,
                             !.readAt = IF out.more THEN Append(@, now) ELSE @,
                             !.ended = ~out.more,
                             !.endErr = out.err,
                             !.brk = res.brk]]
             /\ streams' = [streams EXCEPT ![i] =
                   LET strs == IF cluster.fixed /\ out.more
                               THEN StreamRead(@, out.line, now) ELSE @
                   IN  IF left THEN scannerClose(strs) ELSE strs]
             /\ pc' = [pc EXCEPT ![i] = IF left THEN AfterPod(i) ELSE "scan"]
             /\ podIdx' = [podIdx EXCEPT ![i] = IF left THEN NextPod(i) ELSE @]
             /\ cluster' = AfterScan(scanner[i], out)
    /\ UNCHANGED <<node, d, now, canRun, podList, calls>>

Next ==
    \/ Tick
    \/ \E i \in Invocations : CanRun(i)
    \/ \E i \in Invocations : Check(i)
    \/ \E i \in Invocations : CheckPods(i)
    \/ \E i \in Invocations : CheckLogsOpen(i)
    \/ \E i \in Invocations : CheckLogsScan(i)

Spec == Init /\ [][Next]_vars

\* Two invocations of Check on the one value d, in any interleaving (one
\* after the other included), against a cluster whose state is unchanged.
TwoLogLines ==
    { [stamp |-> Nano(-1),    phrase |-> FALSE, reason |-> ""],
      [stamp |-> Nano(-29),   phrase |-> TRUE,  reason |-> "dial tcp: timeout"],
      [stamp |-> Nano(-10),   phrase |-> TRUE,  reason |-> "connection refused"] }
InitTwo ==
    /\ InitInvocations({1, 2}, [KubeClient : {TRUE}, OsClient : {TRUE}],
                       NewCluster(TRUE, TwoMaxPods, TwoMaxLines, TwoLogLines))
    /\ node = NoNode
SpecTwo == InitTwo /\ [][Next]_vars

\* ------------------------------------------ NodeConfigCheck: one run
\* d.CanRun()
NodeCanRun ==
    /\ node.pc = "start"
    /\ LET res == NodeCanRunResult(node.file)
       IN  node' = [node EXCEPT !.canRun = res,
                                !.pc = IF res.ok THEN "Check" ELSE "refused"]
    /\ UNCHANGED routerVars

\* d.Check() up to the return of ReadAndResolveNodeConfig, with the return
\* of r on a read error.
NodeRead ==
    /\ node.pc = "Check"
    /\ \E ans \in ReadAnswers :
         LET res == NodeCheckRead(node.file, ans)
         IN  node' = [node EXCEPT
                 !.r = res.r,
                 !.calls = Append(@, [op |-> "ReadAndResolveNodeConfig",
                                      file |-> node.file, err |-> ans.err,
                                      config |-> ans.config, errs |-> <<>>]),
                 !.pc = IF res.read THEN "validate" ELSE "done"]
    /\ UNCHANGED routerVars

\* The rest of d.Check(): ValidateNodeConfig and the loop over its errors.
NodeValidate ==
    /\ node.pc = "validate"
    /\ \E errs \in ValidateAnswers :
         node' = [node EXCEPT
             !.r = NodeCheckValidate(@, node.file, errs),
             !.calls = Append(@, [op |-> "ValidateNodeConfig",
                                  file |-> node.file, err |-> NoErr,
                                  config |-> node.calls[1].config, errs |-> errs]),
             !.pc = "done"]
    /\ UNCHANGED routerVars

InitNode ==
    /\ InitInvocations({}, [KubeClient : {FALSE}, OsClient : {FALSE}],
                       NewCluster(FALSE, 0, 0, {}))
    /\ node \in {NewNode(file) : file \in NodeConfigFiles}
NextNode == NodeCanRun \/ NodeRead \/ NodeValidate
SpecNode == InitNode /\ [][NextNode]_vars

\* ---------------------------------------------------------------- claims
Findings(i) == r[i].findings
FindingsAt(i, level) == {k \in DOMAIN Findings(i) : Findings(i)[k].level = level}
FindingsFor(i, podName) == {k \in DOMAIN Findings(i) : Findings(i)[k].podName = podName}
CallsOf(i, op) == {k \in DOMAIN calls[i] : calls[i][k].op = op}
\* The errors the cluster answered invocation i's calls of kind op with.
Answered(i, op) == {calls[i][k].err : k \in CallsOf(i, op)}
Returned(i) == pc[i] = "done"

\* The findings of pod listing and of log scanning.
LaterStageIds == {"DClu2004", "DClu2005", "DClu2006", "DClu2007", "DClu2008", "DClu2009"}

\* A line as the spec describes it: it matches the failure pattern, its
\* timestamp parses with the layout, it is less than 30 seconds old at t.
Matches(line) == line.phrase /\ line.stamp # NoStamp
Parses(tok) == tok.fracDigits = 9 /\ tok.zone = "Z"
Age(line, t) == t - line.stamp.secs
Qualifies(line, t) ==
    Matches(line) /\ Parses(line.stamp) /\ Age(line, t) < RecencyThreshold
\* The lines read from the stream of scanner[i] that qualified when read.
QualifiedReads(i) ==
    {k \in DOMAIN scanner[i].lines :
        Qualifies(scanner[i].lines[k], scanner[i].readAt[k])}
\* scanner[i] is a stream whose scan is over.
ScanOver(i) == scanner[i].pod # "" /\ (scanner[i].brk \/ scanner[i].ended)
\* The DClu2009 finding a line of a pod's log is reported with.
ActiveFailure(podName, line) ==
    Finding("error", "DClu2009", NoErr, podName, line.reason, line.stamp)

\* C1: whenever Get("router") answers not-found, Check returns a sink with
\* exactly one warning and no error, with no finding of pod listing or log
\* scanning, and sends no List and no log Stream request.
C1_NotFoundOneWarning ==
    \A i \in Invocations :
        ErrNotFound \in Answered(i, "Get") =>
            /\ Returned(i)
            /\ Cardinality(FindingsAt(i, "warning")) = 1
            /\ FindingsAt(i, "error") = {}
            /\ \A k \in DOMAIN Findings(i) : Findings(i)[k].id \notin LaterStageIds
            /\ CallsOf(i, "List") = {} /\ CallsOf(i, "Stream") = {}
            /\ streams[i] = <<>>
C1_Witness == \E i \in Invocations : Returned(i) /\ ErrNotFound \in Answered(i, "Get")

\* C2: whenever Get("router") fails with an error other than not-found
\* (forbidden, network), the sink gets an error finding carrying that error,
\* no warning, and Check returns with no finding of a later stage.
C2_OtherLookupErrorIsError ==
    \A i \in Invocations : \A e \in Answered(i, "Get") \ {NoErr, ErrNotFound} :
        /\ Returned(i)
        /\ \E k \in FindingsAt(i, "error") : Findings(i)[k].err = e
        /\ FindingsAt(i, "warning") = {}
        /\ \A k \in DOMAIN Findings(i) : Findings(i)[k].id \notin LaterStageIds

\* C3: in every log stream, a line that matches with a parseable timestamp
\* less than 30 seconds old when read is the last line read from the stream,
\* and the pod has exactly one error finding, which carries that line's
\* reason and timestamp and the pod's name.
C3_FirstRecentMatchReported ==
    \A i \in Invocations : \A k \in QualifiedReads(i) :
        /\ k = Len(scanner[i].lines)
        /\ pc[i] # "scan"
        /\ \E j \in DOMAIN Findings(i) :
              /\ FindingsFor(i, scanner[i].pod) \cap FindingsAt(i, "error") = {j}
              /\ Findings(i)[j] = ActiveFailure(scanner[i].pod, scanner[i].lines[k])
C3_Witness ==
    \E i \in Invocations :
        /\ Returned(i)
        /\ QualifiedReads(i) # {}
        /\ Len(scanner[i].lines) < MaxLines

\* The scan of scanner[i]'s stream is over and every matching line read
\* from it carried a parseable timestamp at least 30 seconds old.
OnlyStaleMatches(i) ==
    /\ ScanOver(i)
    /\ \A k \in DOMAIN scanner[i].lines :
          Matches(scanner[i].lines[k]) =>
              /\ Parses(scanner[i].lines[k].stamp)
              /\ Age(scanner[i].lines[k], scanner[i].readAt[k]) >= RecencyThreshold

\* C4 as stated: when the scan of an opened stream is over and every
\* matching line read was older than the 30-second threshold, the stream
\* was read to its end and the sink holds no finding at any level for the
\* pod.
C4_StaleMatchesNoFindingAtAll ==
    \A i \in Invocations :
        OnlyStaleMatches(i) =>
            /\ scanner[i].ended /\ ~scanner[i].brk
            /\ FindingsFor(i, scanner[i].pod) = {}

\* C4 amended: when the scan of an opened stream is over and every matching
\* line read carried a parseable timestamp at least 30 seconds old, the
\* stream was read to its end and the sink holds no finding for the pod
\* other than the one found-running debug finding (DClu2006) of pod
\* listing.
C4_StaleMatchesEmitNothing ==
    \A i \in Invocations :
        ( /\ ScanOver(i)
          /\ \A k \in DOMAIN scanner[i].lines :
                Matches(scanner[i].lines[k]) =>
                    /\ Parses(scanner[i].lines[k].stamp)
                    /\ Age(scanner[i].lines[k], scanner[i].readAt[k]) >= RecencyThreshold )
        => /\ scanner[i].ended /\ ~scanner[i].brk
           /\ \E j \in DOMAIN Findings(i) :
                 /\ FindingsFor(i, scanner[i].pod) = {j}
                 /\ Findings(i)[j].id = "DClu2006"
C4_Witness ==
    \E i \in Invocations :
        /\ ScanOver(i) /\ scanner[i].ended
        /\ Len(scanner[i].lines) = MaxLines
        /\ \A k \in DOMAIN scanner[i].lines :
              /\ Matches(scanner[i].lines[k]) /\ Parses(scanner[i].lines[k].stamp)
              /\ Age(scanner[i].lines[k], scanner[i].readAt[k]) >= RecencyThreshold

\* C5: the scan loop is left early only at a line that qualified when read,
\* never at a match with an unparseable or stale timestamp; when the scan
\* is over the pod has an error finding if and only if some line read
\* qualified, and without one the scan added no finding for the pod.
C5_StaleOrUnparseableNeverStops ==
    \A i \in Invocations :
        /\ scanner[i].brk => Len(scanner[i].lines) \in QualifiedReads(i)
        /\ ScanOver(i) =>
              /\ QualifiedReads(i) # {} <=>
                    FindingsFor(i, scanner[i].pod) \cap FindingsAt(i, "error") # {}
              /\ QualifiedReads(i) = {} =>
                    /\ scanner[i].ended
                    /\ \A k \in FindingsFor(i, scanner[i].pod) :
                          Findings(i)[k].id = "DClu2006"
C5_Witness ==
    \E i \in Invocations :
        /\ ScanOver(i)
        /\ Len(scanner[i].lines) = 2
        /\ Matches(scanner[i].lines[1])
        /\ ~Parses(scanner[i].lines[1].stamp)
        /\ 2 \in QualifiedReads(i)
        /\ \E k \in FindingsFor(i, scanner[i].pod) :
              Findings(i)[k] = ActiveFailure(scanner[i].pod, scanner[i].lines[2])

\* C6: every log stream opened is closed exactly once when the scan of its
\* pod is left (end of stream, read error, early break) and not before; a
\* failed open acquires no stream; once Check has returned no stream is
\* open.
C6_StreamsClosedOnce ==
    \A i \in Invocations :
        /\ Len(streams[i]) = Cardinality({k \in CallsOf(i, "Stream") : calls[i][k].err = NoErr})
        /\ \A k \in DOMAIN streams[i] :
              streams[i][k].closes =
                 IF k = Len(streams[i]) /\ pc[i] = "scan" THEN 0 ELSE 1
        /\ ScanOver(i) => streams[i][Len(streams[i])].closes = 1
C6_Witness ==
    \E i \in Invocations :
        /\ Returned(i)
        /\ Len(streams[i]) = 2
        /\ FindingsFor(i, streams[i][1].pod) \cap FindingsAt(i, "error") # {}
        /\ scanner[i].endErr = ErrUnexpectedEOF

\* C7: when List succeeds and none of the listed pods is running (also when
\* none is listed), Check returns a sink with exactly one error finding, the
\* DClu2007 one, and no log stream is requested or opened.
C7_NoRunningPodsOneError ==
    \A i \in Invocations : \A c \in CallsOf(i, "List") :
        ( /\ calls[i][c].err = NoErr
          /\ \A k \in DOMAIN calls[i][c].items : calls[i][c].items[k].phase # "Running" )
        => /\ Returned(i)
           /\ \E j \in DOMAIN Findings(i) :
                 /\ FindingsAt(i, "error") = {j}
                 /\ Findings(i)[j].id = "DClu2007"
           /\ CallsOf(i, "Stream") = {}
           /\ streams[i] = <<>>
C7_Witness ==
    \E i \in Invocations : \E c \in CallsOf(i, "List") :
        /\ Returned(i)
        /\ calls[i][c].err = NoErr
        /\ Len(calls[i][c].items) = 2
        /\ \A k \in DOMAIN calls[i][c].items : calls[i][c].items[k].phase # "Running"

\* C8: once CanRun has returned true, Check never aborts, whatever the
\* cluster answers (running pods without containers included).
C8_CheckNeverAborts ==
    \A i \in Invocations : canRun[i].ok => pc[i] # "panic"

\* C9: every failure a stage of Check detects (a failed Get, List or log
\* Stream, a read error of an open stream) has a finding in the sink that
\* carries the error.
C9_EveryFailureHasFinding ==
    \A i \in Invocations :
        /\ \A e \in (Answered(i, "Get") \cup Answered(i, "List")) \ {NoErr} :
              \E k \in DOMAIN Findings(i) : Findings(i)[k].err = e
        /\ \A c \in CallsOf(i, "Stream") :
              calls[i][c].err # NoErr =>
                 \E k \in FindingsFor(i, calls[i][c].name) :
                    Findings(i)[k].err = calls[i][c].err
        /\ scanner[i].endErr # NoErr =>
              \E k \in FindingsFor(i, scanner[i].pod) :
                 Findings(i)[k].err = scanner[i].endErr

\* C10: CanRun returns (true, nil) exactly when both handles are set and
\* adminCan, asked about get on dc "router" in the default namespace,
\* answers allowed without error; otherwise it returns false with a non-nil
\* error; adminCan is asked at most once, and not at all with a handle
\* missing; CanRun writes no finding.
C10_CanRunGate ==
    \A i \in Invocations :
        pc[i] \notin {"off", "start"} =>
            /\ canRun[i].ok <=>
                  /\ d.KubeClient /\ d.OsClient
                  /\ \E k \in CallsOf(i, "adminCan") :
                        calls[i][k].can /\ calls[i][k].err = NoErr
            /\ canRun[i].ok <=> canRun[i].err = NoErr
            /\ Cardinality(CallsOf(i, "adminCan")) =
                  IF d.KubeClient /\ d.OsClient THEN 1 ELSE 0
            /\ \A k \in CallsOf(i, "adminCan") :
                  /\ k = 1
                  /\ calls[i][k].namespace = "default" /\ calls[i][k].verb = "get"
                  /\ calls[i][k].resource = "dc" /\ calls[i][k].name = "router"
            /\ pc[i] \in {"Check", "refused"} => r[i] = NoSink /\ Len(calls[i]) <= 1
C10_Witness ==
    \E i \in Invocations :
        /\ pc[i] = "refused"
        /\ d.KubeClient /\ d.OsClient
        /\ \E k \in CallsOf(i, "adminCan") : ~calls[i][k].can /\ calls[i][k].err = NoErr

\* C11: for both checks the identifier Name() returns is the name of the
\* sink Check creates.
C11_NameIsSinkName ==
    /\ \A i \in Invocations : r[i] # NoSink => r[i].name = ClusterRouter_Name
    /\ node.r # NoSink => node.r.name = NodeConfigCheck_Name

\* C12 as stated: two invocations of Check against unchanged cluster state
\* (same DC answer, same pod list, same logs) return sinks with the same
\* findings in the same order.
C12_TwiceSameFindings ==
    (Returned(1) /\ Returned(2)) => Findings(1) = Findings(2)

\* Every log line both invocations read was on the same side of the
\* 30-second threshold at both reads.
SameRecency ==
    \A k \in DOMAIN streams[1] \cap DOMAIN streams[2] :
        \A l \in DOMAIN streams[1][k].readAt \cap DOMAIN streams[2][k].readAt :
            Qualifies(streams[1][k].lines[l], streams[1][k].readAt[l])
            <=> Qualifies(streams[2][k].lines[l], streams[2][k].readAt[l])

\* C12 amended: two invocations of Check against unchanged cluster state
\* return the same sink (name, findings, order) provided no log line they
\* both read crossed the 30-second threshold between its two reads.
C12_TwiceSameFindingsSameRecency ==
    (Returned(1) /\ Returned(2) /\ SameRecency) => r[1] = r[2]
C12_Witness ==
    /\ Returned(1) /\ Returned(2) /\ SameRecency
    /\ streams[1] # <<>> /\ streams[2] # <<>>
    /\ streams[1][1].readAt # streams[2][1].readAt
    /\ FindingsAt(1, "error") # {}

\* The findings of log scanning: the open-failure warning and the
\* active-failure error.
LogScanIds == {"DClu2008", "DClu2009"}
\* The findings after which Check returns at once.
TerminatingIds == {"DClu2001", "DClu2002", "DClu2004", "DClu2007"}
\* The log-scan findings of invocation i, and those of them naming a pod.
LogScanFindings(i) == {k \in DOMAIN Findings(i) : Findings(i)[k].id \in LogScanIds}
\* The place of the pod named podName in the running pods of invocation i.
PosOf(i, podName) == CHOOSE p \in DOMAIN podList[i] : podList[i][p].name = podName
\* The pods List answered invocation i with (none before the answer).
Listed(i) ==
    IF \E c \in CallsOf(i, "List") : calls[i][c].err = NoErr
    THEN calls[i][CHOOSE c \in CallsOf(i, "List") : TRUE].items
    ELSE <<>>
\* The names of the pods invocation i asked a log stream of, in the order
\* of asking.
StreamsAsked(i) ==
    LET asked == SelectSeq(calls[i], LAMBDA c : c.op = "Stream")
    IN  [k \in DOMAIN asked |-> asked[k].name]

\* C13: when the open of a running pod's log stream fails, the sink gets
\* exactly one warning naming that pod, the DClu2008 one carrying the error,
\* and no error finding for that pod; Check goes on to the next running pod,
\* and when it has returned a stream was asked of every later running pod.
C13_OpenFailureWarnsAndContinues ==
    \A i \in Invocations : \A c \in CallsOf(i, "Stream") :
        calls[i][c].err # NoErr =>
            LET n == calls[i][c].name
            IN  /\ \E j \in DOMAIN Findings(i) :
                      /\ FindingsFor(i, n) \cap FindingsAt(i, "warning") = {j}
                      /\ Findings(i)[j].id = "DClu2008"
                      /\ Findings(i)[j].err = calls[i][c].err
                /\ FindingsFor(i, n) \cap FindingsAt(i, "error") = {}
                /\ PosOf(i, n) < Len(podList[i]) => podIdx[i] > PosOf(i, n)
                /\ Returned(i) =>
                      \A q \in DOMAIN podList[i] :
                          q > PosOf(i, n) =>
                              \E c2 \in CallsOf(i, "Stream") :
                                  c2 > c /\ calls[i][c2].name = podList[i][q].name
C13_Witness ==
    \E i \in Invocations : \E c \in CallsOf(i, "Stream") :
        /\ Returned(i)
        /\ calls[i][c].err # NoErr
        /\ Len(podList[i]) = 2 /\ podList[i][1].name = calls[i][c].name
        /\ Len(streams[i]) = 1 /\ streams[i][1].pod = podList[i][2].name
        /\ scanner[i].lines # <<>>

\* C14: a finding that ends the whole check (DClu2001, DClu2002, DClu2004,
\* DClu2007) is the last finding of its sink; a log-scan finding for a pod
\* (DClu2008, DClu2009) comes after the DClu2003 finding and after the
\* DClu2006 finding of that pod.
C14_StageShortCircuit ==
    \A i \in Invocations : \A k \in DOMAIN Findings(i) :
        /\ Findings(i)[k].id \in TerminatingIds =>
              k = Len(Findings(i)) /\ Returned(i)
        /\ Findings(i)[k].id \in LogScanIds =>
              /\ \E a \in 1..(k - 1) : Findings(i)[a].id = "DClu2003"
              /\ \E b \in 1..(k - 1) :
                    /\ Findings(i)[b].id = "DClu2006"
                    /\ Findings(i)[b].podName = Findings(i)[k].podName
C14_Witness ==
    \E i \in Invocations :
        /\ Returned(i)
        /\ Len(Findings(i)) = 4
        /\ Findings(i)[1].id = "DClu2003"
        /\ Findings(i)[2].id = "DClu2005" /\ Findings(i)[3].id = "DClu2005"
        /\ Findings(i)[4].id = "DClu2007"

\* C15: after a successful List the sink holds exactly one pod debug
\* finding per listed pod, in list order, DClu2005 for a pod that is not
\* running and DClu2006 for a running one; the pods handed to log scanning
\* are the running ones in list order; log streams are asked of running
\* pods only, in list order without a gap, and of every running pod once
\* Check has returned.
C15_OneDebugPerPodStreamsForRunning ==
    \A i \in Invocations : \A c \in CallsOf(i, "List") :
        calls[i][c].err = NoErr =>
            LET items == calls[i][c].items
                debugs == SelectSeq(Findings(i),
                             LAMBDA f : f.id \in {"DClu2005", "DClu2006"})
                running == SelectSeq(items, LAMBDA pod : pod.phase = "Running")
            IN  /\ Len(debugs) = Len(items)
                /\ \A k \in DOMAIN items :
                      /\ debugs[k].level = "debug"
                      /\ debugs[k].podName = items[k].name
                      /\ debugs[k].id = IF items[k].phase = "Running"
                                        THEN "DClu2006" ELSE "DClu2005"
                /\ pc[i] # "getRouterPods" /\ running # <<>> =>
                      /\ Len(podList[i]) = Len(running)
                      /\ \A k \in DOMAIN running : podList[i][k].name = running[k].name
                /\ Len(StreamsAsked(i)) <= Len(running)
                /\ \A k \in DOMAIN StreamsAsked(i) : StreamsAsked(i)[k] = running[k].name
                /\ Returned(i) /\ running # <<>> => Len(StreamsAsked(i)) = Len(running)
C15_Witness ==
    \E i \in Invocations :
        /\ Returned(i)
        /\ Len(Listed(i)) = 2
        /\ Listed(i)[1].phase = "Pending" /\ Listed(i)[2].phase = "Running"
        /\ StreamsAsked(i) = <<Listed(i)[2].name>>
        /\ Len(streams[i]) = 1

\* C16: at every moment at most one log stream of an invocation is open,
\* and it is the one opened last (every earlier one was closed before);
\* each running pod has at most one log-scan finding (DClu2008 or DClu2009),
\* and the log-scan findings are in the order of the pod list.
C16_SequentialScan ==
    \A i \in Invocations :
        /\ \A k \in DOMAIN streams[i] :
              streams[i][k].closes = 0 => k = Len(streams[i]) /\ pc[i] = "scan"
        /\ \A k \in DOMAIN streams[i] : streams[i][k].closes <= 1
        /\ \A j, k \in LogScanFindings(i) :
              j < k => PosOf(i, Findings(i)[j].podName) < PosOf(i, Findings(i)[k].podName)
        /\ \A k \in LogScanFindings(i) :
              PosOf(i, Findings(i)[k].podName) <= podIdx[i]
C16_Witness ==
    \E i \in Invocations :
        /\ pc[i] = "scan"
        /\ Len(streams[i]) = 2
        /\ streams[i][1].closes = 1 /\ streams[i][2].closes = 0
        /\ LogScanFindings(i) # {}

\* C17: a matching line read from a stream is reported as DClu2009 if and
\* only if its timestamp parses with the layout and the clock at the read
\* minus the timestamp is below 30 seconds: at exactly 30 seconds nothing
\* is reported, and a timestamp ahead of the clock is reported.
C17_StrictlyLessThanThirty ==
    \A i \in Invocations : \A k \in DOMAIN scanner[i].lines :
        LET line == scanner[i].lines[k]
            reported == \E j \in FindingsFor(i, scanner[i].pod) :
                           Findings(i)[j] = ActiveFailure(scanner[i].pod, line)
        IN  Matches(line) =>
               (reported <=>
                   /\ line.stamp.fracDigits = 9 /\ line.stamp.zone = "Z"
                   /\ scanner[i].readAt[k] - line.stamp.secs < 30)
C17_Witness ==
    \E i \in Invocations :
        /\ Len(scanner[i].lines) = 2
        /\ Matches(scanner[i].lines[1]) /\ Parses(scanner[i].lines[1].stamp)
        /\ Age(scanner[i].lines[1], scanner[i].readAt[1]) = 30
        /\ Matches(scanner[i].lines[2]) /\ Parses(scanner[i].lines[2].stamp)
        /\ Age(scanner[i].lines[2], scanner[i].readAt[2]) < 0
        /\ Findings(i)[Len(Findings(i))] =
              ActiveFailure(scanner[i].pod, scanner[i].lines[2])
        /\ Cardinality(LogScanFindings(i)) = 1

\* C18: an invocation that has entered Check and has not returned can take
\* a step: with a finite pod list and finite streams nothing but a stream
\* that never ends keeps Check from returning its sink.
C18_CheckReturnsOrSteps ==
    \A i \in Invocations :
        pc[i] \notin {"off", "start", "refused", "done"} =>
            ENABLED (Check(i) \/ CheckPods(i) \/ CheckLogsOpen(i) \/ CheckLogsScan(i))

\* What invocation i's sink is when i runs alone and gets the answers
\* calls[i] and streams[i] record.
RECURSIVE SoloLines(_, _, _, _)
SoloLines(sink, str, l, stop) ==
    IF l > Len(str.lines) \/ stop THEN sink
    ELSE LET res == checkRouterLogsLine(sink, [name |-> str.pod], str.lines[l], str.readAt[l])
         IN  SoloLines(res.r, str, l + 1, res.brk)
RECURSIVE SoloLogs(_, _, _, _)
SoloLogs(i, sink, c, k) ==
    IF c > Len(calls[i]) THEN sink
    ELSE IF calls[i][c].err # NoErr
    THEN SoloLogs(i, checkRouterLogsOpenFailed(sink, [name |-> calls[i][c].name],
                                               calls[i][c].err), c + 1, k)
    ELSE SoloLogs(i, SoloLines(sink, streams[i][k], 1, FALSE), c + 1, k + 1)
SoloSink(i) ==
    LET get == getRouterDC(calls[i][2].err, NewDiagnosticResult(ClusterRouterName))
    IN  IF Len(calls[i]) = 2 THEN get.r
        ELSE LET list == getRouterPods(calls[i][3].err, calls[i][3].items, get.r)
             IN  SoloLogs(i, list.r, 4, 1)

\* C19: with two invocations of Check on the same value in any
\* interleaving, each invocation's sink is the sink it would have built
\* alone from the answers it got (no finding of the other is in it), and
\* its streams are those of its own successful Stream requests, each closed
\* once when left.
C19_ConcurrentChecksIndependent ==
    \A i \in Invocations :
        Len(calls[i]) >= 2 =>
            /\ r[i] = SoloSink(i)
            /\ LET opened == SelectSeq(calls[i],
                                LAMBDA c : c.op = "Stream" /\ c.err = NoErr)
               IN  /\ Len(streams[i]) = Len(opened)
                   /\ \A k \in DOMAIN streams[i] :
                         /\ streams[i][k].pod = opened[k].name
                         /\ streams[i][k].closes =
                               IF k = Len(streams[i]) /\ pc[i] = "scan" THEN 0 ELSE 1
C19_Witness ==
    /\ pc[1] = "scan" /\ pc[2] = "scan"
    /\ scanner[1].lines # <<>> /\ scanner[2].lines # <<>>

\* The calls of the NodeConfigCheck run to the collaborator op.
NodeCalls(op) == {k \in DOMAIN node.calls : node.calls[k].op = op}
NodeErrorFindings == {k \in DOMAIN node.r.findings : node.r.findings[k].level = "error"}

\* C20: NodeConfigCheck.CanRun returns false with an error exactly when the
\* file path is empty; Check emits the DH1001 debug finding first; on a read
\* error it adds exactly one error finding, DH1002 with the error, and
\* returns without calling the validator; on a successful read it adds one
\* info finding, DH1003, and then one DH1004 error finding per validation
\* error in the validator's order; the returned sink has no error finding
\* if and only if the file was read and the validator returned no error.
C20_NodeConfigReadValidateReport ==
    /\ node.pc \notin {"off", "start"} =>
          /\ node.canRun.ok <=> node.file # ""
          /\ node.canRun.ok <=> node.canRun.err = NoErr
          /\ node.pc = "refused" <=> ~node.canRun.ok
    /\ node.pc \in {"Check", "refused"} => node.r = NoSink /\ node.calls = <<>>
    /\ node.r # NoSink =>
          /\ node.r.findings[1] = NodeFinding("debug", "DH1001", NoErr, node.file)
          /\ Cardinality(NodeCalls("ReadAndResolveNodeConfig")) = 1
          /\ node.calls[1].op = "ReadAndResolveNodeConfig"
          /\ node.calls[1].file = node.file
          /\ IF node.calls[1].err # NoErr
             THEN /\ node.pc = "done"
                  /\ node.r.findings =
                        << NodeFinding("debug", "DH1001", NoErr, node.file),
                           NodeFinding("error", "DH1002", node.calls[1].err, node.file) >>
                  /\ NodeCalls("ValidateNodeConfig") = {}
             ELSE /\ node.r.findings[2] = NodeFinding("info", "DH1003", NoErr, node.file)
                  /\ node.pc = "validate" =>
                        Len(node.r.findings) = 2 /\ Len(node.calls) = 1
                  /\ node.pc = "done" =>
                        /\ Len(node.calls) = 2
                        /\ node.calls[2].op = "ValidateNodeConfig"
                        /\ node.calls[2].config = node.calls[1].config
                        /\ Len(node.r.findings) = 2 + Len(node.calls[2].errs)
                        /\ \A k \in DOMAIN node.calls[2].errs :
                              node.r.findings[2 + k] =
                                 NodeFinding("error", "DH1004",
                                             node.calls[2].errs[k], node.file)
    /\ node.pc = "done" =>
          (NodeErrorFindings = {} <=>
              /\ node.calls[1].err = NoErr
              /\ Len(node.calls) = 2 /\ node.calls[2].errs = <<>>)
C20_Witness ==
    /\ node.pc = "done"
    /\ Len(node.calls) = 2
    /\ Len(node.calls[2].errs) = 2
    /\ node.calls[2].errs[1] # node.calls[2].errs[2]
    /\ Cardinality(NodeErrorFindings) = 2

====
